---- MODULE Spec2Model ----
(***************************************************************************)
(* Model of codecheck.py: TypeScriptConventionChecker.  Strings are        *)
(* sequences of one-character strings so that the regular expressions and  *)
(* string methods of the source are computed character by character.       *)
(***************************************************************************)
EXTENDS Integers, Sequences, FiniteSets, TLC

VARIABLES project, violations, pc, fileIdx, exc, log, run, returned, report

vars == <<project, violations, pc, fileIdx, exc, log, run, returned, report>>

(* ---------------------------- bounds ---------------------------------- *)
MaxFiles == 2
MaxRuns == 2
MaxLines == 2
MaxFrags == 3
MaxDocLines == 5
MaxViolations == 3
MaxDecls == 2

(* ------------------------- program constants -------------------------- *)
max_length == 100

(* ------------------------- character classes -------------------------- *)
Lower == {"a","b","c","d","e","f","g","h","i","j","k","l","m",
          "n","o","p","q","r","s","t","u","v","w","x","y","z"}
Upper == {"A","B","C","D","E","F","G","H","I","J","K","L","M",
          "N","O","P","Q","R","S","T","U","V","W","X","Y","Z"}
Digit == {"0","1","2","3","4","5","6","7","8","9"}
IsSpace(c) == c \in {" ", "\t", "\n", "\r", "\f"}
IsWord(c) == c \in Lower \cup Upper \cup Digit \cup {"_"}
IsAlnum(c) == c \in Lower \cup Upper \cup Digit

(* --------------------------- string helpers --------------------------- *)
\* s[p-1:] starts with pat (p is a 1-based position)
StartsWithAt(s, p, pat) ==
    /\ p >= 1
    /\ p + Len(pat) - 1 <= Len(s)
    /\ \A i \in 1..Len(pat) : s[p + i - 1] = pat[i]

\* pat in s
Contains(s, pat) == \E p \in 1..(Len(s) + 1) : StartsWithAt(s, p, pat)

\* s.endswith(suf)
EndsWith(s, suf) == StartsWithAt(s, Len(s) - Len(suf) + 1, suf)

\* position after the longest run of whitespace starting at p (regex \s*)
Min(S) == CHOOSE x \in S : \A y \in S : x <= y

Max(S) == CHOOSE x \in S : \A y \in S : x >= y

SkipSpace(s, p) ==
    IF p > Len(s) THEN p
    ELSE Min({q \in p..(Len(s) + 1) : q = Len(s) + 1 \/ ~IsSpace(s[q])})

\* position after the longest run of word characters starting at p (regex \w*)
SkipWord(s, p) ==
    IF p > Len(s) THEN p
    ELSE Min({q \in p..(Len(s) + 1) : q = Len(s) + 1 \/ ~IsWord(s[q])})

\* s.rstrip()
rstrip(s) ==
    SubSeq(s, 1, Max({0} \cup {i \in 1..Len(s) : ~IsSpace(s[i])}))

\* s.strip()
strip(s) == LET r == rstrip(s) IN SubSeq(r, SkipSpace(r, 1), Len(r))

\* s.count('\n')
CountNewlines(s) == Cardinality({i \in 1..Len(s) : s[i] = "\n"})

\* the lines a text file yields when iterated / readlines(): split after
\* every newline, the newline kept at the end of its line
\* where the line that starts at `start` ends
LineEnd(s, start) ==
    Min({Len(s)} \cup {i \in start..Len(s) : s[i] = "\n"})

RECURSIVE ReadLinesFrom(_, _)
ReadLinesFrom(s, start) ==
    IF start > Len(s) THEN <<>>
    ELSE <<SubSeq(s, start, LineEnd(s, start))>>
         \o ReadLinesFrom(s, LineEnd(s, start) + 1)

readlines(content) == ReadLinesFrom(content, 1)

\* regex $ (no MULTILINE): end of string, or just before a final newline
AtDollar(s, p) == p = Len(s) + 1 \/ (p = Len(s) /\ s[p] = "\n")

\* regex ^ (no MULTILINE): only the start of the string
AtCaret(s, p) == p = 1

\* the violation record (dataclass ConventionViolation)
ConventionViolation(fp, ln, rl, msg) ==
    [file_path |-> fp, line_number |-> ln, rule |-> rl, message |-> msg]

IsPrefix(a, b) == Len(a) <= Len(b) /\ SubSeq(b, 1, Len(a)) = a

\* the characters of s as one string (f-string interpolation of a name)
RECURSIVE Str(_)
Str(s) == IF Len(s) = 0 THEN "" ELSE s[1] \o Str(Tail(s))

\* os.path.join(a, b) for a relative b
PathJoin(a, b) ==
    IF Len(a) = 0 \/ a[Len(a)] = "/" THEN a \o b ELSE a \o <<"/">> \o b

(* ------------------- check_project_structure -------------------------- *)
required_files == <<"package.json", "tsconfig.json", "README.md">>
required_dirs == <<"src", "test", "dist">>

\* the violations of the loop `for item in items: if not exists: append`
RECURSIVE MissingItems(_, _, _, _)
MissingItems(items, present, root, text) ==
    IF Len(items) = 0 THEN <<>>
    ELSE (IF items[1] \notin present
          THEN <<ConventionViolation(root, 0, "project_structure",
                                     text \o items[1])>>
          ELSE <<>>)
         \o MissingItems(Tail(items), present, root, text)

\* the check with the required-directory loop left out
StructureViolationsFilesOnly(present, root) ==
    MissingItems(required_files, present, root, "Missing required file: ")

StructureViolations(present, root) ==
    MissingItems(required_files, present, root, "Missing required file: ")
    \o MissingItems(required_dirs, present, root, "Missing required directory: ")

(* ------------------------- check_file_naming -------------------------- *)
\* os.path.basename
RECURSIVE LastSlash(_, _)
LastSlash(s, p) == IF p = 0 \/ s[p] = "/" THEN p ELSE LastSlash(s, p - 1)

basename(path) == SubSeq(path, LastSlash(path, Len(path)) + 1, Len(path))

\* filename.split('.')[0]
RECURSIVE FirstDot(_, _)
FirstDot(s, p) == IF p > Len(s) \/ s[p] = "." THEN p ELSE FirstDot(s, p + 1)

name_without_ext(filename) == SubSeq(filename, 1, FirstDot(filename, 1) - 1)

\* re.match(r'^[a-z][a-zA-Z0-9]*$', s)
IsCamelCase(s) ==
    /\ Len(s) >= 1
    /\ s[1] \in Lower
    /\ \E e \in 2..(Len(s) + 1) :
          /\ \A i \in 2..(e - 1) : IsAlnum(s[i])
          /\ AtDollar(s, e)

\* re.match(r'^[a-z][a-z0-9-]*[a-z0-9]$', s)
IsKebabCase(s) ==
    /\ Len(s) >= 2
    /\ s[1] \in Lower
    /\ \E e \in 2..Len(s) :
          /\ \A i \in 2..(e - 1) : s[i] \in Lower \cup Digit \cup {"-"}
          /\ s[e] \in Lower \cup Digit
          /\ AtDollar(s, e + 1)

HasValidExtension(filename) ==
    \/ EndsWith(filename, <<".", "t", "s">>)
    \/ EndsWith(filename, <<".", "t", "s", "x">>)
    \/ EndsWith(filename, <<".", "t", "e", "s", "t", ".", "t", "s">>)
    \/ EndsWith(filename, <<".", "s", "p", "e", "c", ".", "t", "s">>)

FileNamingViolations(file_path) ==
    LET filename == basename(file_path) IN
    (IF ~HasValidExtension(filename)
     THEN <<ConventionViolation(file_path, 0, "file_naming",
                "Invalid file extension: " \o Str(filename))>>
     ELSE <<>>)
    \o
    (IF ~(IsCamelCase(name_without_ext(filename))
          \/ IsKebabCase(name_without_ext(filename)))
     THEN <<ConventionViolation(file_path, 0, "file_naming",
                "File name should be camelCase or kebab-case: " \o Str(filename))>>
     ELSE <<>>)

(* ------------------------- check_line_length -------------------------- *)
\* the test with the rstrip() left out: len(line) > max_length
LineTooLongUnstripped(line, limit) == Len(line) > limit

\* the test of one line: len(line.rstrip()) > max_length
LineTooLong(line, limit) == Len(rstrip(line)) > limit

RECURSIVE LineLengthFrom(_, _, _, _)
LineLengthFrom(lines, n, file_path, limit) ==
    IF n > Len(lines) THEN <<>>
    ELSE (IF LineTooLong(lines[n], limit)
          THEN <<ConventionViolation(file_path, n, "line_length",
                     "Line exceeds " \o ToString(limit) \o " characters")>>
          ELSE <<>>)
         \o LineLengthFrom(lines, n + 1, file_path, limit)

LineLengthViolations(content, file_path, limit) ==
    LineLengthFrom(readlines(content), 1, file_path, limit)

(* ---------------------- check_naming_conventions ---------------------- *)
kw_class == <<"c", "l", "a", "s", "s">>
kw_interface == <<"i", "n", "t", "e", "r", "f", "a", "c", "e">>

\* the body of the lookahead (?!^<prefix>[A-Z][a-zA-Z0-9]*$) tried at p:
\* TRUE when ^<prefix>[A-Z][a-zA-Z0-9]*$ matches there
LookaheadBody(s, p, prefix) ==
    /\ AtCaret(s, p)
    /\ StartsWithAt(s, p, prefix)
    /\ LET b == p + Len(prefix) IN
       /\ b <= Len(s)
       /\ s[b] \in Upper
       /\ \E e \in (b + 1)..(Len(s) + 1) :
             /\ \A i \in (b + 1)..(e - 1) : IsAlnum(s[i])
             /\ AtDollar(s, e)

\* re.finditer(kw\s+(?!^prefix[A-Z][a-zA-Z0-9]*$)(\w+), content) from p on:
\* the non-overlapping matches, leftmost first, as [start, name]
\* the pattern matches with its first character at p
DeclAt(content, kw, prefix, p) ==
    LET q == p + Len(kw)
        w == SkipSpace(content, q)
    IN /\ StartsWithAt(content, p, kw)
       /\ w > q
       /\ ~LookaheadBody(content, w, prefix)
       /\ SkipWord(content, w) > w

RECURSIVE FindDecls(_, _, _, _)
FindDecls(content, kw, prefix, from) ==
    LET starts == {p \in from..Len(content) : DeclAt(content, kw, prefix, p)}
    IN IF starts = {} THEN <<>>
       ELSE LET p == Min(starts)
                w == SkipSpace(content, p + Len(kw))
                e == SkipWord(content, w)
            IN <<[start |-> p, name |-> SubSeq(content, w, e - 1)]>>
               \o FindDecls(content, kw, prefix, e)

\* content[:match.start()].count('\n') + 1
MatchLine(content, start) == CountNewlines(SubSeq(content, 1, start - 1)) + 1

RECURSIVE DeclViolations(_, _, _, _)
DeclViolations(matches, content, file_path, text) ==
    IF Len(matches) = 0 THEN <<>>
    ELSE <<ConventionViolation(file_path,
                               MatchLine(content, matches[1].start),
                               "naming_convention",
                               text \o Str(matches[1].name))>>
         \o DeclViolations(Tail(matches), content, file_path, text)

NamingViolations(content, file_path) ==
    DeclViolations(FindDecls(content, kw_class, <<>>, 1), content, file_path,
                   "Class name should be PascalCase: ")
    \o DeclViolations(FindDecls(content, kw_interface, <<"I">>, 1), content,
                      file_path,
                      "Interface name should be PascalCase with I prefix: ")

(* ---------------------------- check_imports --------------------------- *)
kw_import == <<"i", "m", "p", "o", "r", "t">>

RECURSIVE ImportsFrom(_, _, _)
ImportsFrom(lines, n, file_path) ==
    IF n > Len(lines) THEN <<>>
    ELSE (IF /\ StartsWithAt(strip(lines[n]), 1, kw_import)
             /\ Contains(lines[n], <<".", ".">>)
          THEN <<ConventionViolation(file_path, n, "imports",
                     "Avoid using parent directory imports (..)")>>
          ELSE <<>>)
         \o ImportsFrom(lines, n + 1, file_path)

ImportViolations(content, file_path) ==
    ImportsFrom(readlines(content), 1, file_path)

(* -------------------- check_comments_documentation -------------------- *)
kw_TODO == <<"T", "O", "D", "O">>
kw_function == <<"f", "u", "n", "c", "t", "i", "o", "n">>
kw_const == <<"c", "o", "n", "s", "t">>
kw_jsdoc == <<"/", "*", "*">>

\* TODO\s*\(@\w+\) matches at p
AssignedTodoAt(s, p) ==
    /\ StartsWithAt(s, p, kw_TODO)
    /\ LET q == SkipSpace(s, p + 4)
           e == SkipWord(s, q + 2)
       IN /\ StartsWithAt(s, q, <<"(", "@">>)
          /\ e > q + 2
          /\ StartsWithAt(s, e, <<")">>)

\* re.search(r'TODO\s*\(@\w+\)', line)
HasAssignedTodo(line) == \E p \in 1..Len(line) : AssignedTodoAt(line, p)

\* 'TODO' in line and not re.search(...)
TodoViolation(line) == Contains(line, kw_TODO) /\ ~HasAssignedTodo(line)

\* re.match(r'\s*function', line)
MatchesFunction(line) == StartsWithAt(line, SkipSpace(line, 1), kw_function)

\* re.match(r'\s*const\s+\w+\s*=\s*function', line)
MatchesConstFunction(line) ==
    LET p == SkipSpace(line, 1)
        q == p + Len(kw_const)
        w == SkipSpace(line, q)
        e == SkipWord(line, w)
        eq == SkipSpace(line, e)
    IN /\ StartsWithAt(line, p, kw_const)
       /\ w > q
       /\ e > w
       /\ StartsWithAt(line, eq, <<"=">>)
       /\ StartsWithAt(line, SkipSpace(line, eq + 1), kw_function)

LooksLikeFunction(line) == MatchesFunction(line) \/ MatchesConstFunction(line)

\* any('/**' in l for l in content[max(0, line_num-4):line_num-1])
HasJSDocAbove(lines, n) ==
    \E k \in (IF n - 3 > 1 THEN n - 3 ELSE 1)..(n - 1) :
        Contains(lines[k], kw_jsdoc)

\* line_num > 1 and not any(...)
MissingJSDoc(lines, n) == n > 1 /\ ~HasJSDocAbove(lines, n)

RECURSIVE DocFrom(_, _, _)
DocFrom(lines, n, file_path) ==
    IF n > Len(lines) THEN <<>>
    ELSE (IF TodoViolation(lines[n])
          THEN <<ConventionViolation(file_path, n, "documentation",
                     "TODO comment should have an assignee (@username)")>>
          ELSE <<>>)
         \o (IF LooksLikeFunction(lines[n]) /\ MissingJSDoc(lines, n)
             THEN <<ConventionViolation(file_path, n, "documentation",
                        "Missing JSDoc comment for function")>>
             ELSE <<>>)
         \o DocFrom(lines, n + 1, file_path)

DocumentationViolations(content, file_path) ==
    DocFrom(readlines(content), 1, file_path)

(* --------------------------- run_eslint_check ------------------------- *)
\* The outcome of subprocess.run(['npx', 'eslint', ...]) is a record
\*   [started, returncode, stdout]; stdout is what json.loads makes of it:
\*   [kind |-> "text"]  not JSON (json.JSONDecodeError),
\*   [kind |-> "object"] a JSON object, [kind |-> "array", items |-> ...]
\*   a JSON array of objects [has, filePath, messages], every message an
\*   object [has, line, message]; `has` is the set of keys present.

\* the inner loop `for message in file_result['messages']: append(...)`
RECURSIVE EslintMessages(_, _)
EslintMessages(fr, k) ==
    IF k > Len(fr.messages) THEN [out |-> <<>>, err |-> "none"]
    ELSE IF "filePath" \notin fr.has \/ "message" \notin fr.messages[k].has
         THEN [out |-> <<>>, err |-> "KeyError"]
         ELSE LET m == fr.messages[k]
                  rest == EslintMessages(fr, k + 1)
              IN [out |-> <<ConventionViolation(fr.filePath,
                                 IF "line" \in m.has THEN m.line ELSE 0,
                                 "eslint", m.message)>> \o rest.out,
                  err |-> rest.err]

\* the outer loop `for file_result in eslint_results`
RECURSIVE EslintResults(_, _)
EslintResults(items, k) ==
    IF k > Len(items) THEN [out |-> <<>>, err |-> "none"]
    ELSE IF "messages" \notin items[k].has
         THEN [out |-> <<>>, err |-> "KeyError"]
         ELSE LET here == EslintMessages(items[k], 1) IN
              IF here.err # "none" THEN here
              ELSE LET rest == EslintResults(items, k + 1) IN
                   [out |-> here.out \o rest.out, err |-> rest.err]

\* what run_eslint_check appends (out), what it logs (logged) and the
\* exception that leaves it (err)
EslintEffect(e) ==
    IF ~e.started
    THEN [out |-> <<>>, logged |-> <<>>, err |-> "FileNotFoundError"]
    ELSE IF e.returncode = 0
    THEN [out |-> <<>>, logged |-> <<>>, err |-> "none"]
    ELSE IF e.stdout.kind = "text"
    THEN [out |-> <<>>, logged |-> <<"Error parsing ESLint output">>,
          err |-> "none"]
    ELSE IF e.stdout.kind = "object"
    THEN [out |-> <<>>, logged |-> <<>>,
          err |-> IF e.stdout.keys = 0 THEN "none" ELSE "TypeError"]
    ELSE LET r == EslintResults(e.stdout.items, 1) IN
         [out |-> r.out, logged |-> <<>>, err |-> r.err]

(* ---------------------------- generate_report ------------------------- *)
\* path.split('/')
RECURSIVE SplitSlash(_, _, _)
SplitSlash(s, start, p) ==
    IF p > Len(s) THEN <<SubSeq(s, start, Len(s))>>
    ELSE IF s[p] = "/"
         THEN <<SubSeq(s, start, p - 1)>> \o SplitSlash(s, p + 1, p + 1)
         ELSE SplitSlash(s, start, p + 1)

\* os.path.normpath on the components of an absolute path
RECURSIVE NormComps(_, _)
NormComps(comps, stack) ==
    IF Len(comps) = 0 THEN stack
    ELSE IF comps[1] = <<>> \/ comps[1] = <<".">>
         THEN NormComps(Tail(comps), stack)
         ELSE IF comps[1] = <<".", ".">>
              THEN NormComps(Tail(comps),
                             IF Len(stack) = 0 THEN stack
                             ELSE SubSeq(stack, 1, Len(stack) - 1))
              ELSE NormComps(Tail(comps), Append(stack, comps[1]))

\* the components of os.path.abspath(path)
AbsComps(path, cwd) ==
    NormComps(SplitSlash(IF Len(path) > 0 /\ path[1] = "/" THEN path
                         ELSE PathJoin(cwd, path), 1, 1), <<>>)

RECURSIVE CommonLen(_, _)
CommonLen(a, b) ==
    IF Len(a) = 0 \/ Len(b) = 0 \/ a[1] # b[1] THEN 0
    ELSE 1 + CommonLen(Tail(a), Tail(b))

RECURSIVE JoinSlash(_)
JoinSlash(comps) ==
    IF Len(comps) = 1 THEN comps[1]
    ELSE comps[1] \o <<"/">> \o JoinSlash(Tail(comps))

\* os.path.relpath(path, start) for a non-empty path
relpath(path, start, cwd) ==
    LET start_list == AbsComps(start, cwd)
        path_list == AbsComps(path, cwd)
        i == CommonLen(start_list, path_list)
        rel_list == [k \in 1..(Len(start_list) - i) |-> <<".", ".">>]
                    \o SubSeq(path_list, i + 1, Len(path_list))
    IN IF Len(rel_list) = 0 THEN <<".">> ELSE JoinSlash(rel_list)

\* grouping that only merges neighbours: a new group whenever the path
\* differs from the path of the entry before
RECURSIVE GroupAdjacent(_, _, _)
GroupAdjacent(vs, k, groups) ==
    IF k > Len(vs) THEN groups
    ELSE IF Len(groups) > 0 /\ groups[Len(groups)].key = vs[k].file_path
         THEN GroupAdjacent(vs, k + 1,
                  [groups EXCEPT ![Len(groups)].vals = Append(@, vs[k])])
         ELSE GroupAdjacent(vs, k + 1,
                  Append(groups, [key |-> vs[k].file_path, vals |-> <<vs[k]>>]))

\* the dict violations_by_file as the sequence of its items, in insertion
\* order: [key, vals]
RECURSIVE GroupByFile(_, _, _)
GroupByFile(vs, k, groups) ==
    IF k > Len(vs) THEN groups
    ELSE LET fp == vs[k].file_path
             known == \E g \in 1..Len(groups) : groups[g].key = fp
             withKey == IF known THEN groups
                        ELSE Append(groups, [key |-> fp, vals |-> <<>>])
         IN GroupByFile(vs, k + 1,
                [g \in 1..Len(withKey) |->
                    IF withKey[g].key = fp
                    THEN [key |-> fp, vals |-> Append(withKey[g].vals, vs[k])]
                    ELSE withKey[g]])

HeadingText(file_path, root, cwd) ==
    "\n## " \o Str(relpath(file_path, root, cwd)) \o "\n"

ItemText(v) ==
    "- Line " \o ToString(v.line_number) \o ": [" \o v.rule \o "] " \o v.message

RECURSIVE ReportSections(_, _, _)
ReportSections(groups, root, cwd) ==
    IF Len(groups) = 0 THEN <<>>
    ELSE <<[kind |-> "heading",
            text |-> HeadingText(groups[1].key, root, cwd)]>>
         \o [k \in 1..Len(groups[1].vals) |->
                [kind |-> "item", text |-> ItemText(groups[1].vals[k])]]
         \o ReportSections(Tail(groups), root, cwd)

NoViolationsMessage ==
    <<[kind |-> "none",
       text |-> "# Convention Check Report\n\nNo violations found!"]>>

\* the list `report` that generate_report joins with newlines
ReportLines(vs, root, cwd) ==
    IF Len(vs) = 0 THEN NoViolationsMessage
    ELSE <<[kind |-> "title", text |-> "# Convention Check Report\n"],
           [kind |-> "total",
            text |-> "Total violations found: " \o ToString(Len(vs)) \o "\n"]>>
         \o ReportSections(GroupByFile(vs, 1, <<>>), root, cwd)

(* ------------------------------ the project --------------------------- *)
\* project = [path, cwd, present, tree, eslint]: the checker's project_path,
\* the process's working directory, the names that exist in the root, the
\* files os.walk yields in order ([dir, name, content, read]; read is "ok"
\* or the exception open()/read() raises) and the outcome of the lint run.
RequiredItems == {"package.json", "tsconfig.json", "README.md",
                  "src", "test", "dist"}

IsTypeScript(f) ==
    EndsWith(f.name, <<".", "t", "s">>) \/ EndsWith(f.name, <<".", "t", "s", "x">>)

\* the files check_all passes to the per-file checks
Discovered == SelectSeq(project.tree, IsTypeScript)

FilePath(f) == PathJoin(f.dir, f.name)

CurFile == Discovered[fileIdx]

Frame == UNCHANGED <<project, run, returned, report, log>>

(* ------------------------------- actions ------------------------------ *)
CheckProjectStructure ==
    /\ pc = "structure"
    /\ violations' = violations
                     \o StructureViolations(project.present, project.path)
    /\ fileIdx' = 1
    /\ pc' = IF Len(Discovered) = 0 THEN "eslint" ELSE "file_naming"
    /\ UNCHANGED exc
    /\ Frame

CheckFileNaming ==
    /\ pc = "file_naming"
    /\ violations' = violations \o FileNamingViolations(FilePath(CurFile))
    /\ pc' = "line_length"
    /\ UNCHANGED <<fileIdx, exc>>
    /\ Frame

\* Every per-file check that opens the file has no try/except: the
\* exception of open()/read() leaves the check and check_all.
CheckLineLength ==
    /\ pc = "line_length"
    /\ IF CurFile.read # "ok"
       THEN /\ exc' = CurFile.read
            /\ pc' = "raised"
            /\ UNCHANGED <<violations, fileIdx>>
       ELSE /\ violations' = violations
                  \o LineLengthViolations(CurFile.content, FilePath(CurFile),
                                          max_length)
            /\ pc' = "naming_convention"
            /\ fileIdx' = fileIdx
            /\ UNCHANGED exc
    /\ Frame

CheckNamingConventions ==
    /\ pc = "naming_convention"
    /\ IF CurFile.read # "ok"
       THEN /\ exc' = CurFile.read
            /\ pc' = "raised"
            /\ UNCHANGED <<violations, fileIdx>>
       ELSE /\ violations' = violations
                  \o NamingViolations(CurFile.content, FilePath(CurFile))
            /\ pc' = "imports"
            /\ fileIdx' = fileIdx
            /\ UNCHANGED exc
    /\ Frame

CheckImports ==
    /\ pc = "imports"
    /\ IF CurFile.read # "ok"
       THEN /\ exc' = CurFile.read
            /\ pc' = "raised"
            /\ UNCHANGED <<violations, fileIdx>>
       ELSE /\ violations' = violations
                  \o ImportViolations(CurFile.content, FilePath(CurFile))
            /\ pc' = "documentation"
            /\ fileIdx' = fileIdx
            /\ UNCHANGED exc
    /\ Frame

CheckCommentsDocumentation ==
    /\ pc = "documentation"
    /\ IF CurFile.read # "ok"
       THEN /\ exc' = CurFile.read
            /\ pc' = "raised"
            /\ UNCHANGED <<violations, fileIdx>>
       ELSE /\ violations' = violations
                  \o DocumentationViolations(CurFile.content,
                                             FilePath(CurFile))
            /\ pc' = IF fileIdx < Len(Discovered) THEN "file_naming"
                   ELSE "eslint"
            /\ fileIdx' = IF fileIdx < Len(Discovered) THEN fileIdx + 1
                        ELSE fileIdx
            /\ UNCHANGED exc
    /\ Frame

RunEslintCheck ==
    /\ pc = "eslint"
    /\ LET eff == EslintEffect(project.eslint) IN
       /\ violations' = violations \o eff.out
       /\ log' = log \o eff.logged
       /\ exc' = eff.err
       /\ pc' = IF eff.err # "none" THEN "raised" ELSE "return"
    /\ UNCHANGED <<project, fileIdx, run, returned, report>>

\* `return self.violations`
CheckAllReturn ==
    /\ pc = "return"
    /\ returned' = Append(returned, violations)
    /\ pc' = "returned"
    /\ UNCHANGED <<project, violations, fileIdx, exc, log, run, report>>

GenerateReport ==
    /\ pc = "returned"
    /\ report' = ReportLines(violations, project.path, project.cwd)
    /\ pc' = "reported"
    /\ UNCHANGED <<project, violations, fileIdx, exc, log, run, returned>>

\* check_all called once more on the same checker object
CheckAllAgain ==
    /\ pc \in {"returned", "reported"}
    /\ run < MaxRuns
    /\ run' = run + 1
    /\ pc' = "structure"
    /\ UNCHANGED <<project, violations, fileIdx, exc, log, returned, report>>

\* __init__: a new checker object for the same project, then check_all
NewChecker ==
    /\ pc \in {"returned", "reported"}
    /\ run < MaxRuns
    /\ run' = run + 1
    /\ violations' = <<>>
    /\ pc' = "structure"
    /\ UNCHANGED <<project, fileIdx, exc, log, returned, report>>

Next ==
    \/ CheckProjectStructure
    \/ CheckFileNaming
    \/ CheckLineLength
    \/ CheckNamingConventions
    \/ CheckImports
    \/ CheckCommentsDocumentation
    \/ RunEslintCheck
    \/ CheckAllReturn
    \/ GenerateReport
    \/ CheckAllAgain
    \/ NewChecker

(* --------------------------- the whole pipeline ------------------------ *)
dir_root == <<".">>
dir_src == <<".", "/", "s", "r", "c">>
dir_cwd == <<"/", "w">>

\* 'a' repeated n times
Rep(c, n) == [i \in 1..n |-> c]

content_bad == 
    <<"i", "m", "p", "o", "r", "t", " ", "x", " ", "f", "r", "o", "m", " ", "'", ".", ".", "/", "y", "'", "\n", "/", "/", " ", "T", "O", "D", "O", " ", "f", "i", "x", "\n", "c", "l", "a", "s", "s", " ", "f", "o", "o", " ", "{", "}", "\n", "f", "u", "n", "c", "t", "i", "o", "n", " ", "f", "(", ")", " ", "{", "}", "\n">>
    \o Rep("a", max_length + 1) \o <<"\n">>
content_good == 
    <<"/", "*", "*", " ", "d", "o", "c", " ", "*", "/", "\n", "f", "u", "n", "c", "t", "i", "o", "n", " ", "g", "(", ")", " ", "{", "}", "\n", "/", "/", " ", "T", "O", "D", "O", "(", "@", "b", "o", "b", ")", " ", "l", "a", "t", "e", "r", "\n">>

FileCatalog ==
    { [dir |-> dir_src, name |-> <<"a", ".", "t", "s">>, content |-> content_bad,
       read |-> "ok"],
      [dir |-> dir_root, name |-> <<"M", "y", "C", "l", "a", "s", "s", ".", "t", "s">>, content |-> content_good,
       read |-> "ok"],
      [dir |-> dir_src, name |-> <<"c", ".", "t", "s", "x">>, content |-> content_good,
       read |-> "OSError"],
      [dir |-> dir_root, name |-> <<"d", ".", "t", "s">>, content |-> content_bad,
       read |-> "UnicodeDecodeError"],
      [dir |-> dir_root, name |-> <<"n", "o", "t", "e", "s", ".", "m", "d">>, content |-> content_bad,
       read |-> "ok"] }

\* the sequences of at most n distinct elements of S
RECURSIVE DistinctSeqs(_, _)
DistinctSeqs(S, n) ==
    IF n = 0 THEN {<<>>}
    ELSE LET shorter == DistinctSeqs(S, n - 1) IN
         shorter \cup { Append(q, x) : <<q, x>> \in
                          { <<q, x>> \in shorter \X S :
                              \A i \in 1..Len(q) : q[i] # x } }

Stdout(kind, keys, items) == [kind |-> kind, keys |-> keys, items |-> items]

EslintMsg(has, line, message) ==
    [has |-> has, line |-> line, message |-> message]

EslintFile(has, filePath, messages) ==
    [has |-> has, filePath |-> filePath, messages |-> messages]

path_lint == <<"/", "w", "/", "s", "r", "c", "/", "a", ".", "t", "s">>

EslintCatalog ==
    { [started |-> FALSE, returncode |-> 0, stdout |-> Stdout("text", 0, <<>>)],
      [started |-> TRUE, returncode |-> 0, stdout |-> Stdout("array", 0, <<>>)],
      [started |-> TRUE, returncode |-> 2, stdout |-> Stdout("text", 0, <<>>)],
      [started |-> TRUE, returncode |-> 2, stdout |-> Stdout("object", 1, <<>>)],
      [started |-> TRUE, returncode |-> 1, stdout |-> Stdout("array", 0,
          <<EslintFile({"filePath", "messages"}, path_lint,
              <<EslintMsg({"line", "message"}, 3, "no-unused-vars"),
                EslintMsg({"message"}, 0, "Parsing error")>>)>>)],
      [started |-> TRUE, returncode |-> 1, stdout |-> Stdout("array", 0,
          <<EslintFile({"filePath", "messages"}, path_lint,
              <<EslintMsg({"line", "message"}, 3, "no-unused-vars"),
                EslintMsg({"line"}, 4, "")>>)>>)] }

PresentCatalog == { {}, RequiredItems, {"package.json", "src", "dist"} }

Init ==
    /\ project \in [path : {dir_root}, cwd : {dir_cwd},
                    present : PresentCatalog,
                    tree : DistinctSeqs(FileCatalog, MaxFiles),
                    eslint : EslintCatalog]
    /\ violations = <<>>
    /\ pc = "structure"
    /\ fileIdx = 1
    /\ exc = "none"
    /\ log = <<>>
    /\ run = 1
    /\ returned = <<>>
    /\ report = <<>>

Spec == Init /\ [][Next]_vars

(* ===================================================================== *)
(* Specifications that apply one operation to a range of inputs           *)
(* ===================================================================== *)
\* the sequences over S of length 0..n
RECURSIVE SeqsUpTo(_, _)
SeqsUpTo(S, n) ==
    IF n = 0 THEN {<<>>}
    ELSE LET shorter == SeqsUpTo(S, n - 1) IN
         shorter \cup { Append(q, x) : <<q, x>> \in shorter \X S }

\* the concatenation of a sequence of strings
RECURSIVE Concat(_)
Concat(parts) == IF Len(parts) = 0 THEN <<>> ELSE parts[1] \o Concat(Tail(parts))

\* the lines joined by newlines, the last line left unterminated
RECURSIVE JoinLines(_)
JoinLines(lines) ==
    IF Len(lines) = 0 THEN <<>>
    ELSE IF Len(lines) = 1 THEN lines[1]
    ELSE lines[1] \o <<"\n">> \o JoinLines(Tail(lines))

eslint_clean ==
    [started |-> TRUE, returncode |-> 0, stdout |-> Stdout("array", 0, <<>>)]

name_input == <<"i", "n", ".", "t", "s">>

\* a project that holds the one file `content`, about to run the check `at`
OneFileInit(contents, at) ==
    /\ project \in [path : {dir_root}, cwd : {dir_cwd},
                    present : {RequiredItems},
                    tree : { <<[dir |-> dir_src, name |-> name_input,
                                content |-> c, read |-> "ok"]>> :
                             c \in contents },
                    eslint : {eslint_clean}]
    /\ violations = <<>>
    /\ pc = at
    /\ fileIdx = 1
    /\ exc = "none"
    /\ log = <<>>
    /\ run = 1
    /\ returned = <<>>
    /\ report = <<>>

TheContent == project.tree[1].content
ThePath == FilePath(project.tree[1])

(* ------------------ check_project_structure on any root --------------- *)
eslint_entry == ConventionViolation(path_lint, 3, "eslint", "no-unused-vars")

InitStructure ==
    /\ project \in [path : {dir_root, dir_cwd}, cwd : {dir_cwd},
                    present : SUBSET RequiredItems,
                    tree : {<<>>},
                    eslint : {eslint_clean}]
    /\ violations \in {<<>>, <<eslint_entry>>}
    /\ pc = "structure"
    /\ fileIdx = 1
    /\ exc = "none"
    /\ log = <<>>
    /\ run = 1
    /\ returned = <<>>
    /\ report = <<>>

NextStructure == CheckProjectStructure

SpecStructure == InitStructure /\ [][NextStructure]_vars

(* ------------------------ check_line_length --------------------------- *)
LineBodies ==
    { <<>>,
      Rep("a", max_length - 1),
      Rep("a", max_length),
      Rep("a", max_length + 1),
      Rep("a", max_length - 2) \o <<" ", "b">>,
      Rep("a", max_length - 1) \o <<" ", "b">> }

LineTrails == { <<>>, <<" ">>, <<"\t", " ">> }

LengthLines == { b \o t : <<b, t>> \in LineBodies \X LineTrails }

LengthContents ==
    { JoinLines(ls) : ls \in SeqsUpTo(LengthLines, MaxLines) \ {<<>>} }

InitLineLength == OneFileInit(LengthContents, "line_length")

NextLineLength == CheckLineLength

SpecLineLength == InitLineLength /\ [][NextLineLength]_vars

(* -------------------- check_comments_documentation -------------------- *)
TodoFrags == { <<"T", "O", "D", "O">>, <<"(", "@", "a", "l", ")">>, <<"T", "O", "D", "O", "(", "@", "b", ")">>, <<" ">>, <<"x">> }

TodoLines == { Concat(fs) : fs \in SeqsUpTo(TodoFrags, MaxFrags) \ {<<>>} }

TodoContents == TodoLines \cup { <<"x", "\n">> \o l : l \in TodoLines }

DocLineKinds == { <<"/", "*", "*", " ", "d", " ", "*", "/">>, <<"f", "u", "n", "c", "t", "i", "o", "n", " ", "f", "(", ")", " ", "{", "}">>, <<" ", " ", "c", "o", "n", "s", "t", " ", "g", " ", "=", " ", "f", "u", "n", "c", "t", "i", "o", "n", " ", "(", ")", " ", "{", "}">>, <<"x", "(", ")">> }

DocContents ==
    { JoinLines(ls) : ls \in SeqsUpTo(DocLineKinds, MaxDocLines) \ {<<>>} }

InitDocumentation == OneFileInit(TodoContents \cup DocContents, "documentation")

NextDocumentation == CheckCommentsDocumentation

SpecDocumentation == InitDocumentation /\ [][NextDocumentation]_vars

(* ---------------------- check_naming_conventions ---------------------- *)
DeclNames == { <<"f", "o", "o">>, <<"F", "o", "o">>, <<"I", "F", "o", "o">>, <<"i", "F", "o", "o">> }

DeclTexts ==
    { kw \o sep \o n \o <<" ", "{", "}", "\n">> :
        <<kw, sep, n>> \in {kw_class, kw_interface} \X {<<" ">>, <<"\n">>}
                           \X DeclNames }

DeclContents ==
    { pre \o Concat(ds) :
        <<pre, ds>> \in {<<>>, <<"\n">>, <<"/", "/", "\n", "\n">>}
                        \X (SeqsUpTo(DeclTexts, MaxDecls) \ {<<>>}) }

InitNaming == OneFileInit(DeclContents, "naming_convention")

NextNaming == CheckNamingConventions

SpecNaming == InitNaming /\ [][NextNaming]_vars

(* ---------------------------- generate_report ------------------------- *)
ReportPaths == { dir_root, <<".", "/", "a", ".", "t", "s">>, <<"/", "w", "/", "a", ".", "t", "s">>, <<".", "/", "s", "r", "c", "/", "b", ".", "t", "s">> }

ViolationPool ==
    { ConventionViolation(fp, ln, "line_length", "Line exceeds 100 characters") :
        <<fp, ln>> \in ReportPaths \X {1, 2} }

InitReport ==
    /\ project \in [path : {dir_root}, cwd : {dir_cwd},
                    present : {RequiredItems}, tree : {<<>>},
                    eslint : {eslint_clean}]
    /\ violations \in SeqsUpTo(ViolationPool, MaxViolations)
    /\ pc = "returned"
    /\ fileIdx = 1
    /\ exc = "none"
    /\ log = <<>>
    /\ run = 1
    /\ returned = <<violations>>
    /\ report = <<>>

NextReport == GenerateReport

SpecReport == InitReport /\ [][NextReport]_vars

(* ===================================================================== *)
(* Properties                                                             *)
(* ===================================================================== *)
\* the ascending enumeration of a finite set of integers
SortedSeq(S) ==
    [k \in 1..Cardinality(S) |->
        CHOOSE x \in S : Cardinality({y \in S : y < x}) = k - 1]

\* how many entries of vs satisfy both a rule and a line number
CountAt(vs, rl, ln) ==
    Cardinality({k \in 1..Len(vs) : vs[k].rule = rl /\ vs[k].line_number = ln})

\* C1: check_all never fails because of a single file: a read that raises
\* an I/O or decode error in a per-file check is caught, so check_all is
\* never left by that exception.
C1_ReadErrorNeverAbortsRun ==
    ~(pc = "raised" /\ exc \in {"OSError", "UnicodeDecodeError"})

\* the lint run failed: the process could not be started, or its output
\* (parsed because the exit status is not 0) is not the expected structure
EslintFailed(e) ==
    \/ ~e.started
    \/ /\ e.returncode # 0
       /\ \/ e.stdout.kind \in {"text", "object"}
          \/ \E i \in 1..Len(e.stdout.items) :
                \/ e.stdout.items[i].has # {"filePath", "messages"}
                \/ \E m \in 1..Len(e.stdout.items[i].messages) :
                      "message" \notin e.stdout.items[i].messages[m].has

\* C2: run_eslint_check is failure-isolated: when the lint process cannot
\* be started or its output is not the expected structure, the failure is
\* caught and logged, the violation list is left exactly as it was, and
\* check_all goes on to return.
C2_EslintFailureIsolated ==
    [][(pc = "eslint" /\ EslintFailed(project.eslint))
         => /\ violations' = violations
            /\ pc' = "return"
            /\ Len(log') = Len(log) + 1]_vars

MissingText(item) ==
    IF item \in {"package.json", "tsconfig.json", "README.md"}
    THEN "Missing required file: " \o item
    ELSE "Missing required directory: " \o item

\* C3: check_project_structure appends exactly one project_structure
\* violation per missing required file or directory and none for a present
\* one, each with line_number 0 and file_path the project root; a root with
\* none of them yields exactly 6.
C3_OnePerMissingItem ==
    [][pc = "structure"
         => LET added == SubSeq(violations', Len(violations) + 1,
                                Len(violations'))
            IN /\ IsPrefix(violations, violations')
               /\ Len(added) = Cardinality(RequiredItems \ project.present)
               /\ project.present = {} => Len(added) = 6
               /\ \A item \in RequiredItems :
                     Cardinality({k \in 1..Len(added) :
                                    added[k].message = MissingText(item)})
                       = IF item \in project.present THEN 0 ELSE 1
               /\ \A k \in 1..Len(added) :
                     /\ added[k].rule = "project_structure"
                     /\ added[k].line_number = 0
                     /\ added[k].file_path = project.path]_vars

C3_Witness ==
    /\ pc # "structure"
    /\ project.present = {}
    /\ Len(violations) = 6
    /\ \A k \in 1..6 : violations[k].rule = "project_structure"

\* the length of a line once its trailing whitespace is stripped
StrippedLength(line) ==
    CHOOSE n \in 0..Len(line) :
        /\ n = 0 \/ ~IsSpace(line[n])
        /\ \A j \in (n + 1)..Len(line) : IsSpace(line[j])

\* C4: for every line i (1-based) of the file, check_line_length appends
\* exactly one line_length violation with line_number i when the line's
\* length after stripping trailing whitespace is strictly greater than the
\* threshold (100), and none when it is at or under the threshold.
C4_LineLengthExact ==
    pc = "naming_convention"
      => LET lines == readlines(TheContent) IN
         /\ \A i \in 1..Len(lines) :
               CountAt(violations, "line_length", i)
                 = IF StrippedLength(lines[i]) > max_length THEN 1 ELSE 0
         /\ \A k \in 1..Len(violations) :
               /\ violations[k].rule = "line_length"
               /\ violations[k].line_number \in 1..Len(lines)
               /\ violations[k].file_path = ThePath

\* a first line that is over the threshold only with its trailing
\* whitespace is passed, the second line is reported
C4_Witness ==
    /\ pc = "naming_convention"
    /\ LET lines == readlines(TheContent) IN
       /\ Len(lines) >= 2
       /\ Len(lines[1]) > max_length
       /\ StrippedLength(lines[1]) = max_length
       /\ StrippedLength(lines[2]) = max_length + 1
    /\ Len(violations) = 1
    /\ violations[1].line_number = 2

TodoMessage == "TODO comment should have an assignee (@username)"

\* the line holds an occurrence of TODO that no (@name) follows
HasUnassignedTodo(line) ==
    \E p \in 1..Len(line) :
        StartsWithAt(line, p, kw_TODO) /\ ~AssignedTodoAt(line, p)

\* C5: every TODO occurrence lacking the assignee annotation TODO(@name)
\* gets exactly one documentation violation at its line, and TODO(@name)
\* gets none, also on a line with several occurrences, assigned and
\* unassigned mixed or several unassigned.
C5_UnassignedTodoReported ==
    pc # "documentation"
      => LET lines == readlines(TheContent) IN
         \A i \in 1..Len(lines) :
            Cardinality({k \in 1..Len(violations) :
                           /\ violations[k].line_number = i
                           /\ violations[k].rule = "documentation"
                           /\ violations[k].message = TodoMessage})
              = IF HasUnassignedTodo(lines[i]) THEN 1 ELSE 0

JSDocMessage == "Missing JSDoc comment for function"

\* C6: every line that looks like a function declaration gets a 'Missing
\* JSDoc' documentation violation at its line number unless one of the up
\* to three lines just before it contains '/**'; a declaration on line 1 is
\* a violation, and a '/**' four or more lines above does not suppress it.
C6_MissingJSDocReported ==
    pc # "documentation"
      => LET lines == readlines(TheContent) IN
         \A i \in 1..Len(lines) :
            Cardinality({k \in 1..Len(violations) :
                           /\ violations[k].line_number = i
                           /\ violations[k].rule = "documentation"
                           /\ violations[k].message = JSDocMessage})
              = IF /\ LooksLikeFunction(lines[i])
                   /\ ~\E d \in 1..3 :
                          i - d >= 1 /\ Contains(lines[i - d], kw_jsdoc)
                THEN 1 ELSE 0

\* [A-Z][a-zA-Z0-9]* after the given prefix
IsPascalCase(name, prefix) ==
    /\ StartsWithAt(name, 1, prefix)
    /\ Len(name) > Len(prefix)
    /\ name[Len(prefix) + 1] \in Upper
    /\ \A i \in (Len(prefix) + 2)..Len(name) : IsAlnum(name[i])

\* the declarations `kw <identifier>` of the content, as [start, name]
Declarations(content, kw) ==
    LET starts == {p \in 1..Len(content) :
                     /\ StartsWithAt(content, p, kw)
                     /\ SkipSpace(content, p + Len(kw)) > p + Len(kw)
                     /\ SkipWord(content, SkipSpace(content, p + Len(kw)))
                          > SkipSpace(content, p + Len(kw))}
    IN { [start |-> p,
          name |-> SubSeq(content, SkipSpace(content, p + Len(kw)),
                          SkipWord(content, SkipSpace(content, p + Len(kw))) - 1)] :
         p \in starts }

\* C7: check_naming_conventions appends a naming_convention violation for
\* every class declaration whose name is not PascalCase and every interface
\* declaration whose name is not PascalCase with a leading I, and none for
\* a declaration whose name satisfies its convention; the line_number is
\* one plus the number of newlines before the start of the declaration.
C7_OnlyBadNamesReported ==
    pc # "naming_convention"
      => /\ \A d \in Declarations(TheContent, kw_class) :
               (\E k \in 1..Len(violations) :
                   violations[k] = ConventionViolation(ThePath,
                       CountNewlines(SubSeq(TheContent, 1, d.start - 1)) + 1,
                       "naming_convention",
                       "Class name should be PascalCase: " \o Str(d.name)))
                 <=> ~IsPascalCase(d.name, <<>>)
         /\ \A d \in Declarations(TheContent, kw_interface) :
               (\E k \in 1..Len(violations) :
                   violations[k] = ConventionViolation(ThePath,
                       CountNewlines(SubSeq(TheContent, 1, d.start - 1)) + 1,
                       "naming_convention",
                       "Interface name should be PascalCase with I prefix: "
                       \o Str(d.name)))
                 <=> ~IsPascalCase(d.name, <<"I">>)

\* the indices of the entries that are the first of their file_path
FirstOfPath(vs) ==
    {i \in 1..Len(vs) : \A j \in 1..(i - 1) : vs[j].file_path # vs[i].file_path}

\* the indices of the entries with the file_path of entry i, ascending
SamePath(vs, i) == SortedSeq({j \in 1..Len(vs) : vs[j].file_path = vs[i].file_path})

\* C8: generate_report on an empty list returns the fixed no-violations
\* message; on a non-empty list it reports the total equal to the list
\* length, one group per distinct file_path in order of first occurrence
\* (not sorted), and under each group exactly the violations with that
\* file_path, each once, in their original relative order.
C8_ReportGrouping ==
    pc = "reported"
      => IF Len(violations) = 0
         THEN /\ Len(report) = 1
              /\ report[1].text = "# Convention Check Report\n\nNo violations found!"
         ELSE LET heads == SortedSeq({h \in 1..Len(report) :
                                        report[h].kind = "heading"})
                  firsts == SortedSeq(FirstOfPath(violations))
              IN /\ report[1].kind = "title"
                 /\ report[2].text = "Total violations found: "
                                     \o ToString(Len(violations)) \o "\n"
                 /\ Len(report) = 2 + Len(firsts) + Len(violations)
                 /\ Len(heads) = Len(firsts)
                 /\ \A g \in 1..Len(heads) :
                       LET same == SamePath(violations, firsts[g]) IN
                       /\ report[heads[g]].text
                            = HeadingText(violations[firsts[g]].file_path,
                                          project.path, project.cwd)
                       /\ (IF g < Len(heads) THEN heads[g + 1]
                           ELSE Len(report) + 1) = heads[g] + Len(same) + 1
                       /\ \A n \in 1..Len(same) :
                             report[heads[g] + n].text
                               = ItemText(violations[same[n]])

\* the entries of one path are split by an entry of another path
C8_Witness ==
    /\ pc = "reported"
    /\ Len(violations) = 3
    /\ violations[1].file_path = violations[3].file_path
    /\ violations[1].file_path # violations[2].file_path
    /\ violations[1].line_number = 2
    /\ violations[3].line_number = 1

\* C9: running check_all twice on an unchanged project tree yields the same
\* ordered violation list: the list the second run returns equals the list
\* the first run returned, also when both runs use the same checker object.
C9_SecondRunEqualsFirst ==
    Len(returned) >= 2 => returned[2] = returned[1]

\* the position of an entry in the order of execution:
\* <<phase, file, rule>>
RuleIndex(rl) ==
    CASE rl = "file_naming" -> 1
      [] rl = "line_length" -> 2
      [] rl = "naming_convention" -> 3
      [] rl = "imports" -> 4
      [] rl = "documentation" -> 5
      [] OTHER -> 0

ExecutionKey(v) ==
    IF v.rule = "project_structure" THEN <<0, 0, 0>>
    ELSE IF v.rule = "eslint" THEN <<2, 0, 0>>
    ELSE <<1,
           CHOOSE i \in 1..Len(Discovered) : FilePath(Discovered[i]) = v.file_path,
           RuleIndex(v.rule)>>

KeyLeq(a, b) ==
    \/ a[1] < b[1]
    \/ a[1] = b[1] /\ a[2] < b[2]
    \/ a[1] = b[1] /\ a[2] = b[2] /\ a[3] <= b[3]

\* C10: during check_all the list is append-only and built in execution
\* order, so in the returned list all project_structure entries precede all
\* per-file entries, the entries of each discovered file form one block in
\* discovery order with the rules in the sequence file_naming, line_length,
\* naming_convention, imports, documentation, and all eslint entries come
\* last.
C10_ReturnedInExecutionOrder ==
    pc = "returned"
      => \A i \in 1..Len(violations) : \A j \in (i + 1)..Len(violations) :
            KeyLeq(ExecutionKey(violations[i]), ExecutionKey(violations[j]))

====
